---------------------------- MODULE Spec2Model ----------------------------
(***************************************************************************)
(* A model of snowflake_timetravel/utils/timetravel.py.                    *)
(*                                                                         *)
(* Text is modelled character by character: a Python str is a sequence of  *)
(* characters, a character is a one-character TLA+ string.  Characters     *)
(* that TLA+ cannot write (control characters, Latin-1) are named by their *)
(* Python escape, e.g. "\\x0b".  The alphabet is Latin-1 (chr(0)..chr(255)). *)
(***************************************************************************)
EXTENDS Integers, Sequences, FiniteSets, TLC

(***************************************************************************)
(* Characters and the character classes of Python's re module.             *)
(***************************************************************************)

\* chr(n) for 0 <= n <= 255 (index n + 1), used by octal escapes of a template.
ChrTable ==
    <<
       "\\x00", "\\x01", "\\x02", "\\x03", "\\x04", "\\x05", "\\x06", "\\x07",
       "\\x08", "\t", "\n", "\\x0b", "\\x0c", "\\x0d", "\\x0e", "\\x0f",
       "\\x10", "\\x11", "\\x12", "\\x13", "\\x14", "\\x15", "\\x16", "\\x17",
       "\\x18", "\\x19", "\\x1a", "\\x1b", "\\x1c", "\\x1d", "\\x1e", "\\x1f",
       " ", "!", "\"", "#", "$", "%", "&", "'",
       "(", ")", "*", "+", ",", "-", ".", "/",
       "0", "1", "2", "3", "4", "5", "6", "7",
       "8", "9", ":", ";", "<", "=", ">", "?",
       "@", "A", "B", "C", "D", "E", "F", "G",
       "H", "I", "J", "K", "L", "M", "N", "O",
       "P", "Q", "R", "S", "T", "U", "V", "W",
       "X", "Y", "Z", "[", "\\", "]", "^", "_",
       "\\x60", "a", "b", "c", "d", "e", "f", "g",
       "h", "i", "j", "k", "l", "m", "n", "o",
       "p", "q", "r", "s", "t", "u", "v", "w",
       "x", "y", "z", "{", "|", "}", "~", "\\x7f",
       "\\x80", "\\x81", "\\x82", "\\x83", "\\x84", "\\x85", "\\x86", "\\x87",
       "\\x88", "\\x89", "\\x8a", "\\x8b", "\\x8c", "\\x8d", "\\x8e", "\\x8f",
       "\\x90", "\\x91", "\\x92", "\\x93", "\\x94", "\\x95", "\\x96", "\\x97",
       "\\x98", "\\x99", "\\x9a", "\\x9b", "\\x9c", "\\x9d", "\\x9e", "\\x9f",
       "\\xa0", "\\xa1", "\\xa2", "\\xa3", "\\xa4", "\\xa5", "\\xa6", "\\xa7",
       "\\xa8", "\\xa9", "\\xaa", "\\xab", "\\xac", "\\xad", "\\xae", "\\xaf",
       "\\xb0", "\\xb1", "\\xb2", "\\xb3", "\\xb4", "\\xb5", "\\xb6", "\\xb7",
       "\\xb8", "\\xb9", "\\xba", "\\xbb", "\\xbc", "\\xbd", "\\xbe", "\\xbf",
       "\\xc0", "\\xc1", "\\xc2", "\\xc3", "\\xc4", "\\xc5", "\\xc6", "\\xc7",
       "\\xc8", "\\xc9", "\\xca", "\\xcb", "\\xcc", "\\xcd", "\\xce", "\\xcf",
       "\\xd0", "\\xd1", "\\xd2", "\\xd3", "\\xd4", "\\xd5", "\\xd6", "\\xd7",
       "\\xd8", "\\xd9", "\\xda", "\\xdb", "\\xdc", "\\xdd", "\\xde", "\\xdf",
       "\\xe0", "\\xe1", "\\xe2", "\\xe3", "\\xe4", "\\xe5", "\\xe6", "\\xe7",
       "\\xe8", "\\xe9", "\\xea", "\\xeb", "\\xec", "\\xed", "\\xee", "\\xef",
       "\\xf0", "\\xf1", "\\xf2", "\\xf3", "\\xf4", "\\xf5", "\\xf6", "\\xf7",
       "\\xf8", "\\xf9", "\\xfa", "\\xfb", "\\xfc", "\\xfd", "\\xfe", "\\xff"
    >>

Chr(n) == ChrTable[n + 1]

\* The class \s of a str pattern, restricted to Latin-1.
WhitespaceChars ==
    {" ", "\t", "\n", "\\x0b", "\\x0c", "\\x0d",
     "\\x1c", "\\x1d", "\\x1e", "\\x1f", "\\x85", "\\xa0"}

DIGITS == {"0", "1", "2", "3", "4", "5", "6", "7", "8", "9"}

OCTDIGITS == {"0", "1", "2", "3", "4", "5", "6", "7"}

ASCIILETTERS ==
    {"a", "b", "c", "d", "e", "f", "g", "h", "i", "j", "k", "l", "m", "n", "o", "p", "q", "r", "s", "t", "u", "v", "w", "x", "y", "z",
     "A", "B", "C", "D", "E", "F", "G", "H", "I", "J", "K", "L", "M", "N", "O", "P", "Q", "R", "S", "T", "U", "V", "W", "X", "Y", "Z"}

\* The letters of Latin-1 beyond ASCII (str.isalpha): the ordinal
\* indicators, the micro sign and chr(192)..chr(255) without the
\* multiplication and division signs.
Latin1Letters ==
    ({"\\xaa", "\\xb5", "\\xba"} \cup {Chr(n) : n \in 192..255}) \ {"\\xd7", "\\xf7"}

\* The numeric characters of Latin-1 beyond ASCII (str.isnumeric): the
\* superscripts 2, 3, 1 and the fractions 1/4, 1/2, 3/4.
Latin1Numerics == {"\\xb2", "\\xb3", "\\xb9", "\\xbc", "\\xbd", "\\xbe"}

\* The class \w of a str pattern (Unicode-aware), restricted to Latin-1.
WordChars == ASCIILETTERS \cup DIGITS \cup {"_"} \cup Latin1Letters \cup Latin1Numerics

\* The class [\w\._] of from_pattern.
IdentChars == WordChars \cup {".", "_"}

DigitValue(c) ==
    CASE c = "0" -> 0 [] c = "1" -> 1 [] c = "2" -> 2 [] c = "3" -> 3
      [] c = "4" -> 4 [] c = "5" -> 5 [] c = "6" -> 6 [] c = "7" -> 7
      [] c = "8" -> 8 [] c = "9" -> 9

DigitChar(d) == Chr(48 + d)

(***************************************************************************)
(* from_pattern = re.compile(r'from\s+([\w\._]+)\s', re.IGNORECASE)        *)
(***************************************************************************)

\* The least element of a non-empty set of integers.
Min(S) == CHOOSE x \in S : \A y \in S : x <= y

\* The last index of the longest run of characters of class cls that starts
\* at i (i - 1 when s[i] is not in cls): a greedy x+ or x*.
RunEnd(s, i, cls) ==
    LET stops == {j \in i..Len(s) : s[j] \notin cls} IN
    IF stops = {} THEN Len(s) ELSE Min(stops) - 1

\* The literal "from" at i, ignoring case.
KeywordAt(s, i) ==
    /\ i + 3 <= Len(s)
    /\ s[i] \in {"f", "F"}
    /\ s[i + 1] \in {"r", "R"}
    /\ s[i + 2] \in {"o", "O"}
    /\ s[i + 3] \in {"m", "M"}

NoMatch == [ok |-> FALSE, gs |-> 0, ge |-> 0, end |-> 0]

\* from_pattern matched at position i: group 1 is s[gs..ge], the match ends
\* at end.  \s and [\w\._] are disjoint, so backtracking into either greedy
\* run cannot turn a failure into a match.
MatchAt(s, i) ==
    IF ~KeywordAt(s, i) THEN NoMatch
    ELSE LET w == RunEnd(s, i + 4, WhitespaceChars) IN
         IF w < i + 4 THEN NoMatch
         ELSE LET e == RunEnd(s, w + 1, IdentChars) IN
              IF e < w + 1 THEN NoMatch
              ELSE IF e + 1 <= Len(s) /\ s[e + 1] \in WhitespaceChars
                   THEN [ok |-> TRUE, gs |-> w + 1, ge |-> e, end |-> e + 1]
                   ELSE NoMatch

(***************************************************************************)
(* The replacement template of re.sub (re's parse_template).               *)
(***************************************************************************)

\* The replacement f'from \\1 {time_travel_clause} ' of line 27.
Template(time_travel_clause) ==
    <<"f", "r", "o", "m", " ", "\\", "1", " ">> \o time_travel_clause \o <<" ">>

\* The number of capturing groups of from_pattern.
PatternGroups == 1

EscapeLetters == {"a", "b", "f", "n", "r", "t", "v", "\\"}

EscapeChar(c) ==
    CASE c = "a" -> "\\x07" [] c = "b" -> "\\x08" [] c = "f" -> "\\x0c"
      [] c = "n" -> "\n" [] c = "r" -> "\\x0d" [] c = "t" -> "\t"
      [] c = "v" -> "\\x0b" [] c = "\\" -> "\\"

Lit(c) == [grp |-> -1, ch |-> c]

GroupRef(n) == [grp |-> n, ch |-> ""]

TemplateError(kind) == [err |-> kind, items |-> <<>>]

\* str.isidentifier, restricted to Latin-1.
IsIdentifier(name) ==
    /\ name # <<>>
    /\ name[1] \in ASCIILETTERS \cup {"_"} \cup Latin1Letters
    /\ \A k \in 1..Len(name) :
           name[k] \in ASCIILETTERS \cup {"_"} \cup Latin1Letters \cup DIGITS \cup {"\\xb7"}

\* The whitespace int() strips from both ends of its argument.
IntWhitespace == {" ", "\t", "\n", "\\x0b", "\\x0c", "\\x0d", "\\x85", "\\xa0"}

\* int(ds) for a sequence of decimal digits when it is below 10, and 10 for
\* every greater value (addgroup rejects them all alike).
DecimalValue(ds) ==
    LET nonzero == {k \in 1..Len(ds) : ds[k] # "0"} IN
    IF nonzero = {} THEN 0
    ELSE IF Min(nonzero) = Len(ds) THEN DigitValue(ds[Len(ds)])
    ELSE 10

\* The group index of a group name that is no identifier: int(name), with
\* its whitespace, sign and underscores between digits; -1 when int raises
\* ValueError (more than 4300 digits included) or the value is negative.
GroupIndex(name) ==
    LET solid == {k \in 1..Len(name) : name[k] \notin IntWhitespace}
        first == Min(solid)
        last  == CHOOSE k \in solid : \A j \in solid : j <= k
        signed == name[first] \in {"+", "-"}
        ds == SubSeq(name, IF signed THEN first + 1 ELSE first, last)
        digits == SelectSeq(ds, LAMBDA c : c \in DIGITS)
        value == DecimalValue(digits)
    IN
    IF solid = {} THEN -1
    ELSE IF \/ ds = <<>>
            \/ \E k \in 1..Len(ds) : ds[k] \notin DIGITS \cup {"_"}
            \/ ds[1] = "_" \/ ds[Len(ds)] = "_"
            \/ \E k \in 1..(Len(ds) - 1) : ds[k] = "_" /\ ds[k + 1] = "_"
         THEN -1
    ELSE IF Len(digits) > 4300 THEN -1
    ELSE IF name[first] = "-" /\ value > 0 THEN -1
    ELSE value

\* The index of the first ">" at or after i, 0 when there is none.
FindClose(t, i) ==
    LET closes == {j \in i..Len(t) : t[j] = ">"} IN
    IF closes = {} THEN 0 ELSE Min(closes)

\* One step of parse_template: the token that starts at i, as the items it
\* adds, the index after it, and the exception it raises ("none" for none).
TokenAt(t, i) ==
    LET Items(its, j) == [err |-> "none", items |-> its, next |-> j]
        Error(kind) == [err |-> kind, items |-> <<>>, next |-> i]
        AddGroup(n, j) ==
            IF n > PatternGroups THEN Error("re.error") ELSE Items(<<GroupRef(n)>>, j)
        c == t[i + 1]
        n1 == IF i + 2 <= Len(t) THEN t[i + 2] ELSE ""
        n2 == IF i + 3 <= Len(t) THEN t[i + 3] ELSE ""
    IN
    IF t[i] # "\\" THEN Items(<<Lit(t[i])>>, i + 1)
    ELSE IF i = Len(t) THEN Error("re.error")
    ELSE IF c = "g" THEN
        IF n1 # "<" THEN Error("re.error")
        ELSE LET j == FindClose(t, i + 3) IN
             IF j = 0 \/ j = i + 3 THEN Error("re.error")
             ELSE LET name == SubSeq(t, i + 3, j - 1) IN
                  IF IsIdentifier(name)
                  THEN \* the tokenizer reads one token ahead: a backslash that
                       \* ends the template raises before the name is looked up
                       IF j + 1 = Len(t) /\ t[j + 1] = "\\" THEN Error("re.error")
                       ELSE Error("IndexError")
                  ELSE IF GroupIndex(name) < 0 THEN Error("re.error")
                  ELSE AddGroup(GroupIndex(name), j + 1)
    ELSE IF c = "0" THEN
        IF n1 \in OCTDIGITS THEN
            IF n2 \in OCTDIGITS
            THEN Items(<<Lit(Chr((8 * DigitValue(n1) + DigitValue(n2)) % 256))>>, i + 4)
            ELSE Items(<<Lit(Chr(DigitValue(n1)))>>, i + 3)
        ELSE Items(<<Lit(Chr(0))>>, i + 2)
    ELSE IF c \in DIGITS THEN
        IF n1 \in DIGITS THEN
            IF c \in OCTDIGITS /\ n1 \in OCTDIGITS /\ n2 \in OCTDIGITS
            THEN LET v == 64 * DigitValue(c) + 8 * DigitValue(n1) + DigitValue(n2) IN
                 IF v > 255 THEN Error("re.error") ELSE Items(<<Lit(Chr(v))>>, i + 4)
            ELSE AddGroup(10 * DigitValue(c) + DigitValue(n1), i + 3)
        ELSE AddGroup(DigitValue(c), i + 2)
    ELSE IF c \in EscapeLetters THEN Items(<<Lit(EscapeChar(c))>>, i + 2)
    ELSE IF c \in ASCIILETTERS THEN Error("re.error")
    ELSE Items(<<Lit("\\"), Lit(c)>>, i + 2)

\* parse_template: the template's literals and group references, or the
\* exception it raises.  The characters up to the next backslash are
\* literals; the token at the backslash is parsed by TokenAt.
RECURSIVE ParseTemplateFrom(_, _, _)
ParseTemplateFrom(t, i, acc) ==
    LET escapes == {j \in i..Len(t) : t[j] = "\\"} IN
    IF escapes = {}
    THEN [err |-> "none", items |-> acc \o [k \in 1..(Len(t) - i + 1) |-> Lit(t[i + k - 1])]]
    ELSE LET e == Min(escapes)
             tok == TokenAt(t, e)
         IN
         IF tok.err # "none" THEN TemplateError(tok.err)
         ELSE ParseTemplateFrom(t, tok.next,
                  acc \o [k \in 1..(e - i) |-> Lit(t[i + k - 1])] \o tok.items)

ParseTemplate(t) == ParseTemplateFrom(t, 1, <<>>)

\* The text of one item of the template for the match m of s.
ItemText(it, s, m) ==
    IF it.grp = -1 THEN <<it.ch>>
    ELSE IF it.grp = 0 THEN SubSeq(s, m.start, m.end)
    ELSE SubSeq(s, m.gs, m.ge)

\* expand_template: the texts of the items lo..hi, joined, for the match m
\* of s.
RECURSIVE ExpandTemplate(_, _, _, _, _)
ExpandTemplate(items, lo, hi, s, m) ==
    IF lo > hi THEN <<>>
    ELSE IF lo = hi THEN ItemText(items[lo], s, m)
    ELSE LET mid == (lo + hi) \div 2 IN
         ExpandTemplate(items, lo, mid, s, m) \o ExpandTemplate(items, mid + 1, hi, s, m)

\* pattern.sub: the leftmost non-overlapping matches, searched from i, each
\* replaced by the expanded template; every character between the matches
\* is copied.
RECURSIVE SubFrom(_, _, _, _)
SubFrom(s, i, items, acc) ==
    LET starts == {j \in i..Len(s) : MatchAt(s, j).ok} IN
    IF starts = {} THEN acc \o SubSeq(s, i, Len(s))
    ELSE LET b == Min(starts)
             found == MatchAt(s, b)
             whole == [start |-> b, end |-> found.end, gs |-> found.gs, ge |-> found.ge]
         IN
         SubFrom(s, found.end + 1, items,
                 acc \o SubSeq(s, i, b - 1) \o ExpandTemplate(items, 1, Len(items), s, whole))

Returned(v) == [kind |-> "return", value |-> v]

Raised(exc) == [kind |-> "raise", value |-> exc]

\* modify_from_clause_for_timetravel(query, time_travel_clause): the value it
\* returns or the exception it raises.  The template is compiled before the
\* first search, so a bad template raises even when nothing matches.
modify_from_clause_for_timetravel(query, time_travel_clause) ==
    LET tpl == ParseTemplate(Template(time_travel_clause)) IN
    IF tpl.err # "none" THEN Raised(tpl.err)
    ELSE Returned(SubFrom(query, 1, tpl.items, <<>>))

(***************************************************************************)
(* The time travel clauses of query_at_time and query_at_offset.           *)
(***************************************************************************)

\* str(n) of a Python int.
RECURSIVE NatStr(_)
NatStr(n) ==
    IF n < 10 THEN <<DigitChar(n)>> ELSE NatStr(n \div 10) \o <<DigitChar(n % 10)>>

IntStr(n) == IF n < 0 THEN <<"-">> \o NatStr(-n) ELSE NatStr(n)

\* A field of strftime, zero-padded to width w.
RECURSIVE ZeroPad(_, _)
ZeroPad(cs, w) == IF Len(cs) >= w THEN cs ELSE ZeroPad(<<"0">> \o cs, w)

\* timestamp.strftime("%Y-%m-%d %H:%M:%S") of a naive datetime,
\* dt = <<Y, m, d, H, M, S>> or <<Y, m, d, H, M, S, microsecond>>.  The C
\* library formats %Y as the year's decimal digits, without padding.
Strftime(dt) ==
    NatStr(dt[1]) \o <<"-">> \o ZeroPad(NatStr(dt[2]), 2) \o <<"-">>
        \o ZeroPad(NatStr(dt[3]), 2) \o <<" ">> \o ZeroPad(NatStr(dt[4]), 2) \o <<":">>
        \o ZeroPad(NatStr(dt[5]), 2) \o <<":">> \o ZeroPad(NatStr(dt[6]), 2)

\* Python values passed as timestamp: kind is the value's type, n an int's
\* (or bool's) value, chars a str's characters or the str() of a value of
\* another type, dt a datetime's fields.
IntValue(n) == [kind |-> "int", n |-> n, chars |-> <<>>, dt |-> <<>>]

BoolValue(b) == [kind |-> "bool", n |-> b, chars |-> <<>>, dt |-> <<>>]

StrValue(cs) == [kind |-> "str", n |-> 0, chars |-> cs, dt |-> <<>>]

DatetimeValue(dt) == [kind |-> "datetime", n |-> 0, chars |-> <<>>, dt |-> dt]

NoneValue == [kind |-> "NoneType", n |-> 0, chars |-> <<"N", "o", "n", "e">>, dt |-> <<>>]

FloatValue(cs) == [kind |-> "float", n |-> 0, chars |-> cs, dt |-> <<>>]

\* A bytes value; cs is its str(), e.g. b'\x00' with the backslash written out.
BytesValue(cs) == [kind |-> "bytes", n |-> 0, chars |-> cs, dt |-> <<>>]

Unset == [kind |-> "unset", n |-> 0, chars |-> <<>>, dt |-> <<>>]

\* format(value, ''), as an f-string field renders a value.
\* str(dt) of a naive datetime, as an f-string field formats it: the year
\* is padded to four digits, and microseconds that are not zero are printed.
DatetimeStr(dt) ==
    ZeroPad(NatStr(dt[1]), 4) \o <<"-">> \o ZeroPad(NatStr(dt[2]), 2) \o <<"-">>
        \o ZeroPad(NatStr(dt[3]), 2) \o <<" ">> \o ZeroPad(NatStr(dt[4]), 2) \o <<":">>
        \o ZeroPad(NatStr(dt[5]), 2) \o <<":">> \o ZeroPad(NatStr(dt[6]), 2)
        \o (IF Len(dt) = 7 /\ dt[7] # 0 THEN <<".">> \o ZeroPad(NatStr(dt[7]), 6) ELSE <<>>)

Format(v) ==
    CASE v.kind = "int" -> IntStr(v.n)
      [] v.kind = "bool" -> IF v.n = 1 THEN <<"T", "r", "u", "e">> ELSE <<"F", "a", "l", "s", "e">>
      [] v.kind = "datetime" -> DatetimeStr(v.dt)
      [] OTHER -> v.chars

\* isinstance(v, int): bool is a subclass of int.
IsInstanceInt(v) == v.kind \in {"int", "bool"}

IsInstanceDatetime(v) == v.kind = "datetime"

DateaddPrefix == <<"A","T"," ","(","T","I","M","E","S","T","A","M","P"," ","=",">"," ","D","A","T","E","A","D","D","(","D","A","Y",","," ","-">>

DateaddSuffix == <<","," ","C","U","R","R","E","N","T","_","T","I","M","E","S","T","A","M","P","(",")",")",")">>

LiteralPrefix == <<"A","T"," ","(","T","I","M","E","S","T","A","M","P"," ","=",">"," ","'">>

LiteralSuffix == <<"'",")">>

\* QueryAtTimeClause with a value that is no str taken for a day offset.
QueryAtTimeClauseStrOnly(timestamp) ==
    IF IsInstanceInt(timestamp) \/ ~(IsInstanceDatetime(timestamp) \/ timestamp.kind = "str")
    THEN DateaddPrefix \o Format(timestamp) \o DateaddSuffix
    ELSE LiteralPrefix \o Format(timestamp) \o LiteralSuffix

\* Lines 119-128: the time travel clause query_at_time builds from timestamp.
QueryAtTimeClause(timestamp) ==
    IF IsInstanceInt(timestamp)
    THEN DateaddPrefix \o Format(timestamp) \o DateaddSuffix
    ELSE IF IsInstanceDatetime(timestamp)
         THEN LiteralPrefix \o Strftime(timestamp.dt) \o LiteralSuffix
         ELSE LiteralPrefix \o Format(timestamp) \o LiteralSuffix

\* QueryAtOffsetClause without the minus sign before the offset.
QueryAtOffsetClausePlus(days_ago) ==
    SubSeq(DateaddPrefix, 1, Len(DateaddPrefix) - 1) \o Format(days_ago) \o DateaddSuffix

\* Line 166: the time travel clause query_at_offset builds from days_ago.
QueryAtOffsetClause(days_ago) ==
    DateaddPrefix \o Format(days_ago) \o DateaddSuffix

(***************************************************************************)
(* Name resolution: a name a function reads is one of its locals, a name   *)
(* bound at module level, or a builtin; any other read raises NameError.   *)
(***************************************************************************)

\* The names timetravel.py binds at module level (imports and defs).
ModuleGlobals ==
    {"pd", "Optional", "Union", "Dict", "Any", "List", "Tuple", "datetime", "re",
     "typing", "hextoolkit", "modify_from_clause_for_timetravel", "sql_cell",
     "execute_query", "query_at_time", "query_at_offset", "compare_timetravel",
     "visualize_comparison"}

\* The builtins the modelled functions read.
Builtins == {"isinstance", "hasattr", "int", "str"}

\* The parameters and assigned names of each function.
LocalNames(f) ==
    CASE f = "execute_query" ->
            {"query", "data_connection_name", "cast_decimals", "cursor", "columns", "data"}
      [] f = "query_at_time" ->
            {"query", "timestamp", "db_name", "data_connection_name", "params",
             "cast_decimals", "time_travel_clause", "timestamp_str", "time_travel_query"}
      [] f = "query_at_offset" ->
            {"query", "days_ago", "db_name", "data_connection_name", "params",
             "cast_decimals", "time_travel_clause", "time_travel_query"}
      [] f = "compare_timetravel" ->
            {"query", "days_ago", "db_name", "data_connection_name", "params",
             "cast_decimals", "historical_data", "current_data"}
      [] f = "sql_cell" ->
            {"source", "data_connection_name", "cast_decimals", "hex_data_connection"}
      [] OTHER -> {}

Resolves(name, f) == name \in LocalNames(f) \cup ModuleGlobals \cup Builtins

\* The first of the names read, in evaluation order, that does not resolve
\* ("" when all do).
RECURSIVE FirstUnresolved(_, _)
FirstUnresolved(names, f) ==
    IF names = <<>> THEN ""
    ELSE IF ~Resolves(Head(names), f) THEN Head(names)
         ELSE FirstUnresolved(Tail(names), f)

(***************************************************************************)
(* Inputs.                                                                 *)
(***************************************************************************)

\* The most fragments a query is concatenated from.
MaxQueryFrags == 3

\* The most fragments a time travel clause is concatenated from.
MaxClauseFrags == 2

\* The largest |days_ago| a call is made with.
MaxDays == 12

QueryFragments ==
    {<<"f","r","o","m"," ","T"," ">>,
     <<"F","R","O","M"," ","a",".","b","_","c","\n">>,
     <<"F","r","o","m"," "," ","t">>,
     <<"s","e","l","e","c","t"," ","*"," ">>,
     <<"x","=","1">>,
     <<" ">>,
     <<"f","r","o","m">>}

ClauseFragments ==
    {<<"A", "T">>, <<"\\">>, <<"1">>, <<"7">>, <<"d">>, <<"n">>, <<" ">>,
     <<"\\", "g", "<", "+", "1", ">">>}

RECURSIVE Concats(_, _)
Concats(frags, n) ==
    IF n = 0 THEN {<<>>}
    ELSE LET shorter == Concats(frags, n - 1) IN
         shorter \cup {a \o b : a \in shorter, b \in frags}

\* The example of the docstrings of query_at_time, query_at_offset and
\* compare_timetravel.
DocExampleQuery == <<"S","E","L","E","C","T"," ","*"," ","F","R","O","M"," ","m","y","_","t","a","b","l","e">>

ScenarioQuery == <<"s","e","l","e","c","t"," ","*"," ","f","r","o","m"," ","T"," ","w","h","e","r","e"," ","x","=","1">>

UpperScenarioQuery == <<"S","E","L","E","C","T"," ","*"," ","F","R","O","M"," ","T"," ","W","H","E","R","E"," ","x","=","1">>

TwoTableQuery == <<"s","e","l","e","c","t"," ","*"," ","f","r","o","m"," ","a"," ","j","o","i","n"," ","(","s","e","l","e","c","t"," ","*"," ","f","r","o","m"," ","b"," ",")"," ","c">>

NoFromQuery == <<"s","e","l","e","c","t"," ","1">>

\* A table identifier with a letter of Latin-1 beyond ASCII.
Latin1Query == <<"s","e","l","e","c","t"," ","*"," ","f","r","o","m"," ","c","a","f","\\xe9"," ","x">>

ScenarioTimestamp == <<"2","0","2","3","-","0","7","-","2","2"," ","1","2",":","0","0",":","0","0">>

ScenarioClause == LiteralPrefix \o ScenarioTimestamp \o LiteralSuffix

ExampleQueries ==
    {DocExampleQuery, ScenarioQuery, UpperScenarioQuery, TwoTableQuery, NoFromQuery,
     Latin1Query}

InjectInputs ==
    (Concats(QueryFragments, MaxQueryFrags) \X Concats(ClauseFragments, MaxClauseFrags))
        \cup (ExampleQueries \X {ScenarioClause, QueryAtOffsetClause(IntValue(7))})

DayOffsets == {IntValue(n) : n \in (-MaxDays)..MaxDays}

Timestamps ==
    DayOffsets
        \cup {BoolValue(1)}
        \cup {DatetimeValue(<<2023, 7, 22, 12, 0, 0>>), DatetimeValue(<<2024, 12, 1, 9, 5, 59>>),
              DatetimeValue(<<999, 1, 2, 3, 4, 5, 7>>)}
        \cup {StrValue(ScenarioTimestamp), StrValue(<<"\\", "d">>)}
        \cup {NoneValue, FloatValue(<<"1", ".", "5">>),
              BytesValue(<<"b", "'", "\\", "x", "0", "0", "'">>),
              BytesValue(<<"b", "'", "a", "'">>)}

\* params: None or a mapping of parameter names to values.
ParamValues == {"None", "{'x': 1}"}

DataConnectionNames == {"", "Analytics"}

(***************************************************************************)
(* State: one call of a function of the module, from the call to its       *)
(* return or raise.                                                        *)
(***************************************************************************)
VARIABLES
    fn,                   \* the function called ("" before the call)
    pc,                   \* the line the call is at: "idle", a line, "done"
    query,                \* the argument query (source, for sql_cell)
    timestamp,            \* the argument timestamp of query_at_time
    days_ago,             \* the argument days_ago
    params,               \* the argument params
    data_connection_name, \* the argument data_connection_name
    time_travel_clause,   \* the local time_travel_clause
    time_travel_query,    \* the local time_travel_query
    dispatched,           \* the queries handed to the executor (hextoolkit), in order
    outcome               \* how the call ended: "none", a return or a raise

vars ==
    <<fn, pc, query, timestamp, days_ago, params, data_connection_name,
      time_travel_clause, time_travel_query, dispatched, outcome>>

NoOutcome == [kind |-> "none", value |-> "none"]

Init ==
    /\ fn = ""
    /\ pc = "idle"
    /\ query = <<>>
    /\ timestamp = Unset
    /\ days_ago = Unset
    /\ params = "None"
    /\ data_connection_name = "Analytics"
    /\ time_travel_clause = <<>>
    /\ time_travel_query = <<>>
    /\ dispatched = <<>>
    /\ outcome = NoOutcome

\* A call enters function f at line l with its arguments bound.
Enter(f, l, q, ts, d, p, c) ==
    /\ pc = "idle"
    /\ fn' = f
    /\ pc' = l
    /\ query' = q
    /\ timestamp' = ts
    /\ days_ago' = d
    /\ params' = p
    /\ data_connection_name' = c
    /\ UNCHANGED <<time_travel_clause, time_travel_query, dispatched, outcome>>

\* The call ends with outcome o.
Finish(o) ==
    /\ pc' = "done"
    /\ outcome' = o
    /\ UNCHANGED <<fn, query, timestamp, days_ago, params, data_connection_name>>

\* Evaluating a call expression reads the names in order; the first that does
\* not resolve raises NameError and the callee is never entered.
RaisesNameError(names) == FirstUnresolved(names, fn) # ""

(***************************************************************************)
(* modify_from_clause_for_timetravel, called on its own.                   *)
(***************************************************************************)
InitInject ==
    \E inp \in InjectInputs :
        /\ fn = "modify_from_clause_for_timetravel"
        /\ pc = "mfc_27"
        /\ query = inp[1]
        /\ time_travel_clause = inp[2]
        /\ timestamp = Unset
        /\ days_ago = Unset
        /\ params = "None"
        /\ data_connection_name = "Analytics"
        /\ time_travel_query = <<>>
        /\ dispatched = <<>>
        /\ outcome = NoOutcome

\* Lines 24-29.
ModifyFromClause27 ==
    /\ pc = "mfc_27"
    /\ fn = "modify_from_clause_for_timetravel"
    /\ Finish(modify_from_clause_for_timetravel(query, time_travel_clause))
    /\ UNCHANGED <<time_travel_clause, time_travel_query, dispatched>>

(***************************************************************************)
(* sql_cell: the one function of the module that hands a query to the      *)
(* executor (hextoolkit).                                                  *)
(***************************************************************************)
CallSqlCell ==
    \E q \in ExampleQueries, c \in DataConnectionNames :
        Enter("sql_cell", "sql_49", q, Unset, Unset, "None", c)

\* A query handed to the executor: its text, the hextoolkit call that took
\* it, and the executor's answer, a table (named by its place in the
\* dispatch order) or a raise.
Dispatch(via, ok) ==
    [text |-> query, via |-> via, params |-> "None", ok |-> ok,
     result |-> Len(dispatched) + 1]

\* Line 49: a data connection name that is not empty selects the connection.
SqlCell49 ==
    /\ pc = "sql_49"
    /\ ~RaisesNameError(<<"data_connection_name">>)
    /\ pc' = IF data_connection_name # "" THEN "sql_50" ELSE "sql_52"
    /\ UNCHANGED <<fn, query, timestamp, days_ago, params, data_connection_name,
                   time_travel_clause, time_travel_query, dispatched, outcome>>

\* Line 50: hextoolkit looks the connection up; it returns it, or raises
\* before any query is handed over.
SqlCell50 ==
    /\ pc = "sql_50"
    /\ ~RaisesNameError(<<"hextoolkit", "data_connection_name">>)
    /\ \E ok \in BOOLEAN :
        IF ok
        THEN /\ pc' = "sql_51"
             /\ UNCHANGED <<fn, query, timestamp, days_ago, params,
                            data_connection_name, outcome>>
        ELSE Finish(Raised("ExecutionError"))
    /\ UNCHANGED <<time_travel_clause, time_travel_query, dispatched>>

\* Line 51: the query is dispatched through the connection; the executor
\* returns a table or raises, and nothing catches the raise.
SqlCell51 ==
    /\ pc = "sql_51"
    /\ ~RaisesNameError(<<"hex_data_connection", "source", "cast_decimals">>)
    /\ \E ok \in BOOLEAN :
        /\ dispatched' = Append(dispatched, Dispatch("get_data_connection", ok))
        /\ Finish(IF ok THEN Returned(Len(dispatched) + 1) ELSE Raised("ExecutionError"))
    /\ UNCHANGED <<time_travel_clause, time_travel_query>>

\* Line 52: without a connection name the query is dispatched through
\* query_dataframes.
SqlCell52 ==
    /\ pc = "sql_52"
    /\ ~RaisesNameError(<<"hextoolkit", "source", "cast_decimals">>)
    /\ \E ok \in BOOLEAN :
        /\ dispatched' = Append(dispatched, Dispatch("query_dataframes", ok))
        /\ Finish(IF ok THEN Returned(Len(dispatched) + 1) ELSE Raised("ExecutionError"))
    /\ UNCHANGED <<time_travel_clause, time_travel_query>>

(***************************************************************************)
(* execute_query                                                           *)
(***************************************************************************)
CallExecuteQuery ==
    \E q \in ExampleQueries, c \in DataConnectionNames :
        Enter("execute_query", "exq_71", q, Unset, Unset, "None", c)

\* Line 71: hasattr(connection, 'execute') reads connection, which is neither
\* a parameter of execute_query nor bound at module level.  Lines 72-80 are
\* reached by no call.
ExecuteQuery71 ==
    /\ pc = "exq_71"
    /\ RaisesNameError(<<"hasattr", "connection">>)
    /\ Finish(Raised("NameError"))
    /\ UNCHANGED <<time_travel_clause, time_travel_query, dispatched>>

(***************************************************************************)
(* query_at_time                                                           *)
(***************************************************************************)
CallQueryAtTime ==
    \E q \in ExampleQueries, ts \in Timestamps, p \in ParamValues :
        Enter("query_at_time", "qat_119", q, ts, Unset, p, "Analytics")

\* Lines 119-128.
QueryAtTime119 ==
    /\ pc = "qat_119"
    /\ time_travel_clause' = QueryAtTimeClause(timestamp)
    /\ pc' = "qat_131"
    /\ UNCHANGED <<fn, query, timestamp, days_ago, params, data_connection_name,
                   time_travel_query, dispatched, outcome>>

\* Line 131.
QueryAtTime131 ==
    /\ pc = "qat_131"
    /\ LET r == modify_from_clause_for_timetravel(query, time_travel_clause) IN
       IF r.kind = "raise"
       THEN Finish(r) /\ UNCHANGED time_travel_query
       ELSE /\ time_travel_query' = r.value
            /\ pc' = "qat_134"
            /\ UNCHANGED <<fn, query, timestamp, days_ago, params,
                           data_connection_name, outcome>>
    /\ UNCHANGED <<time_travel_clause, dispatched>>

\* Line 134: execute_query(connection, time_travel_query, params) reads
\* connection before execute_query is entered.
QueryAtTime134 ==
    /\ pc = "qat_134"
    /\ RaisesNameError(<<"execute_query", "connection", "time_travel_query", "params">>)
    /\ Finish(Raised("NameError"))
    /\ UNCHANGED <<time_travel_clause, time_travel_query, dispatched>>

(***************************************************************************)
(* query_at_offset                                                         *)
(***************************************************************************)
CallQueryAtOffset ==
    \E q \in ExampleQueries, d \in DayOffsets, p \in ParamValues :
        Enter("query_at_offset", "qao_166", q, Unset, d, p, "Analytics")

\* Line 166.
QueryAtOffset166 ==
    /\ pc = "qao_166"
    /\ time_travel_clause' = QueryAtOffsetClause(days_ago)
    /\ pc' = "qao_169"
    /\ UNCHANGED <<fn, query, timestamp, days_ago, params, data_connection_name,
                   time_travel_query, dispatched, outcome>>

\* Line 169.
QueryAtOffset169 ==
    /\ pc = "qao_169"
    /\ LET r == modify_from_clause_for_timetravel(query, time_travel_clause) IN
       IF r.kind = "raise"
       THEN Finish(r) /\ UNCHANGED time_travel_query
       ELSE /\ time_travel_query' = r.value
            /\ pc' = "qao_172"
            /\ UNCHANGED <<fn, query, timestamp, days_ago, params,
                           data_connection_name, outcome>>
    /\ UNCHANGED <<time_travel_clause, dispatched>>

\* Line 172: as line 134.
QueryAtOffset172 ==
    /\ pc = "qao_172"
    /\ RaisesNameError(<<"execute_query", "connection", "time_travel_query", "params">>)
    /\ Finish(Raised("NameError"))
    /\ UNCHANGED <<time_travel_clause, time_travel_query, dispatched>>

(***************************************************************************)
(* compare_timetravel                                                      *)
(***************************************************************************)
CallCompareTimetravel ==
    \E q \in ExampleQueries, d \in DayOffsets, p \in ParamValues :
        Enter("compare_timetravel", "cmp_204", q, Unset, d, p, "Analytics")

\* Line 204: query_at_offset(connection, query, days_ago, params) reads
\* connection, which is neither a parameter of compare_timetravel nor bound
\* at module level, before query_at_offset is entered.  Lines 207-209 are
\* reached by no call.
CompareTimetravel204 ==
    /\ pc = "cmp_204"
    /\ RaisesNameError(<<"query_at_offset", "connection", "query", "days_ago", "params">>)
    /\ Finish(Raised("NameError"))
    /\ UNCHANGED <<time_travel_clause, time_travel_query, dispatched>>

Next ==
    \/ CallSqlCell
    \/ SqlCell49
    \/ SqlCell50
    \/ SqlCell51
    \/ SqlCell52
    \/ CallExecuteQuery
    \/ ExecuteQuery71
    \/ CallQueryAtTime
    \/ QueryAtTime119
    \/ QueryAtTime131
    \/ QueryAtTime134
    \/ CallQueryAtOffset
    \/ QueryAtOffset166
    \/ QueryAtOffset169
    \/ QueryAtOffset172
    \/ CallCompareTimetravel
    \/ CompareTimetravel204

\* The calls of the functions that reach the executor or are meant to.
Spec == Init /\ [][Next]_vars

\* modify_from_clause_for_timetravel applied to every input of InjectInputs.
SpecInject == InitInject /\ [][ModifyFromClause27]_vars

(***************************************************************************)
(* Properties.                                                             *)
(***************************************************************************)

\* sub occurs in s as a contiguous run of characters.
Contains(s, sub) ==
    \E i \in 1..(Len(s) - Len(sub) + 1) : SubSeq(s, i, i + Len(sub) - 1) = sub

\* Every position of s at which a FROM clause (keyword, whitespace,
\* identifier, whitespace) starts.
FromClauseStarts(s) == {i \in 1..Len(s) : MatchAt(s, i).ok}

InjectDone == fn = "modify_from_clause_for_timetravel" /\ pc = "done"

\* s with the qualifier inserted after the identifier of its one FROM
\* clause, set off by one space as in the scenario of C1, and every
\* character of s kept.
InsertedAfterIdentifier(s, qualifier) ==
    LET m == MatchAt(s, CHOOSE i \in FromClauseStarts(s) : TRUE) IN
    SubSeq(s, 1, m.ge) \o <<" ">> \o qualifier \o SubSeq(s, m.ge + 1, Len(s))

\* C1: for a query with exactly one FROM clause the injector returns the
\* query with the qualifier inserted right after the table identifier and
\* every character of the query unchanged.
C1_InsertsAfterIdentifierOnly ==
    (InjectDone /\ Cardinality(FromClauseStarts(query)) = 1)
        => /\ outcome.kind = "return"
           /\ outcome.value = InsertedAfterIdentifier(query, time_travel_clause)

\* The qualifier is free of the escapes of a replacement template.
NoBackslash(qualifier) == \A k \in 1..Len(qualifier) : qualifier[k] # "\\"

\* C2: for a query with no FROM clause the injector returns the query
\* unchanged, whatever the qualifier, and raises nothing.
C2_NoFromClausePassThrough ==
    (InjectDone /\ FromClauseStarts(query) = {})
        => /\ outcome.kind = "return"
           /\ outcome.value = query

\* Beside C2: a qualifier without a backslash is passed through silently.
PassThroughWithoutBackslash ==
    (InjectDone /\ FromClauseStarts(query) = {} /\ NoBackslash(time_travel_clause))
        => outcome = Returned(query)

\* The FROM clauses of s from i on, leftmost first, none overlapping another.
RECURSIVE FromClauses(_, _)
FromClauses(s, i) ==
    LET starts == {j \in FromClauseStarts(s) : j >= i} IN
    IF starts = {} THEN <<>>
    ELSE LET m == MatchAt(s, Min(starts)) IN
         <<[start |-> Min(starts), gs |-> m.gs, ge |-> m.ge, end |-> m.end]>>
             \o FromClauses(s, m.end + 1)

\* s from i on with the text of the qualifier, one copy, set after the
\* identifier of each of the clauses k.. of cl.
RECURSIVE QualifiedEach(_, _, _, _, _)
QualifiedEach(s, i, cl, k, qualifier) ==
    IF k > Len(cl) THEN SubSeq(s, i, Len(s))
    ELSE SubSeq(s, i, cl[k].start - 1)
            \o <<"f", "r", "o", "m", " ">> \o SubSeq(s, cl[k].gs, cl[k].ge)
            \o <<" ">> \o qualifier \o <<" ">>
            \o QualifiedEach(s, cl[k].end + 1, cl, k + 1, qualifier)

\* C3: for a query with N > 1 FROM clauses the output holds N copies of the
\* qualifier, one right after each of the N identifiers, all the same text.
C3_QualifiesEveryFromClause ==
    (InjectDone /\ Len(FromClauses(query, 1)) > 1)
        => /\ outcome.kind = "return"
           /\ outcome.value =
                  QualifiedEach(query, 1, FromClauses(query, 1), 1, time_travel_clause)

\* Beside C3: a qualifier without a backslash is copied, as it is, after
\* every FROM clause the leftmost-first search finds.
QualifiesEveryFromClauseWithoutBackslash ==
    (InjectDone /\ NoBackslash(time_travel_clause))
        => outcome = Returned(QualifiedEach(query, 1, FromClauses(query, 1), 1,
                                            time_travel_clause))

CompareDone == fn = "compare_timetravel" /\ pc = "done"

ExecutorFailed == \E i \in 1..Len(dispatched) : ~dispatched[i].ok

\* The query qualified for days_ago days ago by the clause injector.
QualifiedForDaysAgo(q, d) ==
    modify_from_clause_for_timetravel(q, QueryAtOffsetClause(d)).value

\* C4: a call of compare_timetravel in which the executor does not fail has
\* issued exactly two dispatches when it ends, one of the unmodified query
\* and one of the query qualified for days_ago days ago.
C4_CompareIssuesTwoDispatches ==
    (CompareDone /\ ~ExecutorFailed)
        => /\ Len(dispatched) = 2
           /\ \E i, j \in 1..Len(dispatched) :
                /\ i # j
                /\ dispatched[i].text = query
                /\ dispatched[j].text = QualifiedForDaysAgo(query, days_ago)

\* C5: a call of compare_timetravel in which the executor does not fail
\* ends by returning the pair (result of the dispatch of the query, result
\* of the dispatch of the qualified query), both dispatched with the
\* caller's params.
C5_CompareReturnsCurrentThenHistorical ==
    (CompareDone /\ ~ExecutorFailed)
        => /\ outcome.kind = "return"
           /\ \E i, j \in 1..Len(dispatched) :
                /\ i # j
                /\ dispatched[i].text = query
                /\ dispatched[i].params = params
                /\ dispatched[j].text = QualifiedForDaysAgo(query, days_ago)
                /\ dispatched[j].params = params
                /\ outcome.value = <<dispatched[i].result, dispatched[j].result>>

\* C9: every call of compare_timetravel issues the historical dispatch
\* first and the current dispatch only after the historical one has
\* completed without failing.
C9_HistoricalDispatchBeforeCurrent ==
    CompareDone
        => /\ Len(dispatched) \in {1, 2}
           /\ dispatched[1].text = QualifiedForDaysAgo(query, days_ago)
           /\ Len(dispatched) = 2 => (dispatched[1].ok /\ dispatched[2].text = query)

\* A timestamp that is neither an int, nor a datetime, nor a str.
UnrecognizedKind(v) == v.kind \notin {"int", "bool", "datetime", "str", "unset"}

\* C7 as stated: query_at_time fails with an unsupported-timestamp error
\* on a timestamp of an unrecognized kind, before it does anything else.
C7_UnrecognizedTimestampRejected ==
    (fn = "query_at_time" /\ UnrecognizedKind(timestamp) /\ pc # "qat_119")
        => outcome = Raised("UnsupportedTimestampError")

\* C7 as amended: on a timestamp of an unrecognized kind query_at_time
\* raises no unsupported-timestamp error and dispatches no query text; it
\* embeds str(timestamp) as it embeds a string and injects that clause at
\* line 131.  When the injection raises (str(timestamp) holds an escape the
\* replacement template rejects) the call ends with that error; otherwise
\* the modified query is what the call passes to its dispatch step at line
\* 134, where the call ends with NameError.
C7_UnrecognizedTimestampEmbedded ==
    (fn = "query_at_time" /\ UnrecognizedKind(timestamp) /\ pc # "qat_119")
        => LET embedded == LiteralPrefix \o timestamp.chars \o LiteralSuffix
               injected == modify_from_clause_for_timetravel(query, embedded)
           IN
           /\ time_travel_clause = embedded
           /\ outcome # Raised("UnsupportedTimestampError")
           /\ dispatched = <<>>
           /\ pc = "qat_134" => (injected.kind = "return" /\ time_travel_query = injected.value)
           /\ pc = "done" =>
                 outcome = IF injected.kind = "raise" THEN injected ELSE Raised("NameError")

C7_Witness ==
    /\ fn = "query_at_time"
    /\ timestamp = NoneValue
    /\ pc = "qat_134"
    /\ time_travel_clause = <<"A","T"," ","(","T","I","M","E","S","T","A","M","P"," ","=",">"," ","'","N","o","n","e","'",")">>

DateaddMinus == <<"D","A","T","E","A","D","D","(","D","A","Y",","," ","-">>

CurrentTimestampCall == <<"C","U","R","R","E","N","T","_","T","I","M","E","S","T","A","M","P","(",")">>

\* C8: for an integer day offset N, query_at_time and query_at_offset build
\* the same clause; it holds DATEADD(DAY, -N, and CURRENT_TIMESTAMP(), and
\* for N = 7 it holds DATEADD(DAY, -7,.
C8_OffsetClauseText ==
    LET Holds(n) ==
            /\ Contains(time_travel_clause, DateaddMinus \o IntStr(n) \o <<",">>)
            /\ Contains(time_travel_clause, CurrentTimestampCall)
            /\ n = 7 => Contains(time_travel_clause, DateaddMinus \o <<"7", ",">>)
    IN
    /\ (fn = "query_at_time" /\ timestamp.kind = "int" /\ pc # "qat_119")
          => (time_travel_clause = QueryAtOffsetClause(timestamp) /\ Holds(timestamp.n))
    /\ (fn = "query_at_offset" /\ days_ago.kind = "int" /\ pc # "qao_166")
          => (time_travel_clause = QueryAtTimeClause(days_ago) /\ Holds(days_ago.n))

C8_Witness ==
    /\ fn = "query_at_offset"
    /\ days_ago = IntValue(7)
    /\ pc = "qao_169"
    /\ time_travel_clause = <<"A","T"," ","(","T","I","M","E","S","T","A","M","P"," ","=",">"," ","D","A","T","E","A","D","D","(","D","A","Y",","," ","-","7",","," ","C","U","R","R","E","N","T","_","T","I","M","E","S","T","A","M","P","(",")",")",")">>

\* C10: for the documented example "SELECT * FROM my_table" the text
\* query_at_offset hands on for dispatch holds the time travel clause after
\* the table identifier.
C10_DocExampleIsQualified ==
    (fn = "query_at_offset" /\ query = DocExampleQuery /\ pc = "qao_172")
        => Contains(time_travel_query,
                    <<"m", "y", "_", "t", "a", "b", "l", "e", " ">> \o time_travel_clause)

=============================================================================
